---- MODULE Spec2Model ----
(***************************************************************************)
(* A model of the Shopee scraper: the proxy rotator, the block detector,   *)
(* and the attempt loop of main (src/app/main.py).                         *)
(*                                                                         *)
(* The specifications share the variables:                                 *)
(*   SpecLoader   the pool a ProxyRotator loads from the environment;      *)
(*   SpecRotator  a ProxyRotator on its own, called again and again;       *)
(*   SpecBlock    is_shopee_blocking applied to one page;                  *)
(*   SpecLogin    handle_google_login_process called once;                 *)
(*   SpecApi      one request to the HTTP endpoint (src/app/api.py);       *)
(*   SpecApiPair  two requests to the endpoint in flight at once;          *)
(*   Spec         the run of main();                                       *)
(*   SpecFair     the run of main() with its steps eventually taken.       *)
(***************************************************************************)
EXTENDS Integers, Sequences, FiniteSets, TLC

\* ------------------------------------------------------------------ bounds

\* The largest pool a model run loads (and the number of server names).
MaxPool == 3

\* The number of get_random_proxy calls SpecRotator follows.
MaxCalls == 5

\* The largest number of snippets a page content is made of.
MaxTokens == 2

\* ------------------------------------------------------------ text values

(* A text is a sequence of chunks; a chunk is a run of characters that the  *)
(* strings of the program either hold whole or not at all, so that a        *)
(* substring test on chunks decides the substring test on characters.       *)
(*   vf     驗證資訊失敗                                                     *)
(*   sv     抱歉，我們無法驗證資訊，請稍等並                                 *)
(*   retry  再試一次                                                         *)
(*   dot    。                                                               *)
(*   pla    請登入蝦皮購物 App                                               *)
(*   se     抱歉，目前發生了一些錯誤                                         *)
(*   dl     請下載並登入蝦皮購物 App 以繼續使用                              *)
(*   logout 登出                                                             *)
(*   pnd    頁面無法顯示                                                     *)
(*   eo1    發生錯誤！請返回          eo2   或回到主頁                       *)
(*   pcd    Page cannot be displayed                                         *)
(*   aeo    An error occurred! Please go back and try again or return to    *)
(*          the homepage                                                     *)
(*   pls    Please log in to Shopee Shopping App                             *)
(*   sse    Sorry, some errors have occurred                                 *)
(*   stub   150 characters of markup that hold none of the strings          *)
(*   body   400 characters of markup that hold none of the strings          *)
(*   ws     60 characters of white space                                     *)

\* The number of characters of a chunk.
ChunkLen(c) ==
    CASE c = "vf" -> 6
      [] c = "sv" -> 16
      [] c = "retry" -> 4
      [] c = "dot" -> 1
      [] c = "pla" -> 11
      [] c = "se" -> 12
      [] c = "dl" -> 20
      [] c = "logout" -> 2
      [] c = "pnd" -> 6
      [] c = "eo1" -> 8
      [] c = "eo2" -> 5
      [] c = "pcd" -> 24
      [] c = "aeo" -> 73
      [] c = "pls" -> 36
      [] c = "sse" -> 32
      [] c = "stub" -> 150
      [] c = "body" -> 400
      [] c = "ws" -> 60
      [] OTHER -> 1

\* main.py:92-102
block_indicators ==
    << <<"vf">>,
       <<"sv", "retry", "dot">>,
       <<"retry">>,
       <<"pla">>,
       <<"se", "dot", "dl", "dot">>,
       <<"logout">> >>

\* main.py:532-540
captcha_error_texts ==
    << <<"pnd">>,
       <<"eo1", "retry", "eo2">>,
       <<"pcd">>,
       <<"aeo">>,
       <<"vf">>,
       <<"se", "dot", "dl", "dot">>,
       <<"logout">> >>

\* api.py:227-235 without its last string.
api_captcha_error_texts_but_last ==
    << <<"pnd">>,
       <<"eo1", "retry", "eo2">>,
       <<"pcd">>,
       <<"aeo">>,
       <<"vf">>,
       <<"se", "dot", "dl", "dot">> >>

\* api.py:227-235
api_captcha_error_texts ==
    << <<"pnd">>,
       <<"eo1", "retry", "eo2">>,
       <<"pcd">>,
       <<"aeo">>,
       <<"vf">>,
       <<"se", "dot", "dl", "dot">>,
       <<"logout">> >>

\* main.py:697-702
app_only_error_texts ==
    << <<"pls">>,
       <<"sse">>,
       <<"pla">>,
       <<"se">> >>

Range(s) == {s[i] : i \in DOMAIN s}

\* The snippets a page is made of: every string the program looks for, and
\* markup and white space that hold none of them.
Snippets ==
    Range(block_indicators) \cup Range(captcha_error_texts)
        \cup Range(app_only_error_texts)
        \cup { <<"stub">>, <<"body">>, <<"ws">> }

\* A page content: a sequence of snippets.
ContentsUpTo(n) == UNION { [1..k -> Snippets] : k \in 0..n }

Contents == ContentsUpTo(MaxTokens)

RECURSIVE Flat(_)
\* The chunks of a content, in order.
Flat(content) ==
    IF content = <<>> THEN <<>>
    ELSE Head(content) \o Flat(Tail(content))

\* Python's `needle in hay`.
Contains(hay, needle) ==
    \E i \in 1..(Len(hay) - Len(needle) + 1) :
        SubSeq(hay, i, i + Len(needle) - 1) = needle

\* for text in texts: if text in content: ... break
ContainsAny(content, texts) ==
    \E k \in DOMAIN texts : Contains(Flat(content), texts[k])

RECURSIVE LStrip(_)
LStrip(t) == IF t # <<>> /\ Head(t) = "ws" THEN LStrip(Tail(t)) ELSE t

RECURSIVE RStrip(_)
RStrip(t) ==
    IF t # <<>> /\ t[Len(t)] = "ws" THEN RStrip(SubSeq(t, 1, Len(t) - 1)) ELSE t

RECURSIVE CharLen(_)
CharLen(t) == IF t = <<>> THEN 0 ELSE ChunkLen(Head(t)) + CharLen(Tail(t))

\* len(page_content.strip())
StripLen(content) == CharLen(RStrip(LStrip(Flat(content))))

\* len(page_content)
RawLen(content) == CharLen(Flat(content))

\* ---------------------------------------------------------------- state

VARIABLES
    \* ProxyRotator (main.py:18-76)
    proxies,         \* self.proxies: the pool, a sequence of servers
    tried_proxies,   \* self.tried_proxies: a set of servers
    \* the last get_random_proxy call
    proxy_config,    \* what it returned (None when the pool is empty)
    triedBefore,     \* tried_proxies when it was entered
    triedAtSelect,   \* tried_proxies at random.choice, after any reset
    candidates,      \* the pool positions random.choice drew from
    picks,           \* SpecRotator: the servers returned so far, in order
    \* is_shopee_blocking (main.py:79-144)
    page,            \* what the page answers to the detector's reads
    checked,         \* the call has returned
    blocked,         \* the value it returned
    faults,          \* the reads of the call that raised
    \* main (main.py:383-790)
    pc,              \* the position of main
    attempts,
    success,
    browser,         \* what the local `browser` refers to
    live,            \* the browser sessions that are open
    page_content,
    captcha_found,
    login_success,
    rechecked,       \* this attempt read the content again after the wait
    captcha_error_found,
    extracted,       \* this attempt ran the extraction (main.py:572-680)
    persisted,       \* this attempt wrote product_data_N.json (main.py:687)
    outcome,         \* the classification of the current attempt
    allBlocked,      \* every finished attempt so far was classified Blocked
    endedAt,         \* the position at which the current attempt ended
    report,          \* what main printed at the end
    opened,          \* the sessions this attempt has opened
    closes,          \* the open sessions this attempt's browser.close() closed
    login_call,      \* this attempt's call of handle_google_login_process
    scenario,        \* the run is one of the two-proxy scenario, so far
    passedAt,        \* the attempt in which the scenario passed the block check
    \* the environment (main.py:15-16)
    GOOGLE_EMAIL,    \* the variable is set
    GOOGLE_PASSWORD,
    environ,         \* SpecLoader: the proxies whose _SERVER variable is set
    \* handle_google_login_process on its own (main.py:147-335)
    script,          \* what the popup answers to the steps of the call
    \* scrape_shopee_product (api.py:186-283)
    api_pc,          \* the position of the request
    api_browser,     \* what the local `browser` of the request refers to
    api_live,        \* the sessions of the request that are open
    api_page_content,
    api_response,    \* what the client receives
    api_fault,       \* what went wrong in the request
    api_opened,      \* the sessions the request has opened
    api_closes,      \* the sessions its browser.close() has closed
    api_proxy,       \* the proxy its session is bound to
    CUSTOM_PROXY_SERVER, \* the variable is set (api.py:35)
    api_captcha_error_found,
    \* a second request to the endpoint, in flight with the first
    peer_pc,         \* its position
    peer_live,       \* its sessions that are open
    peer_fault       \* what went wrong in it

rotVars == <<proxies, tried_proxies, proxy_config, triedBefore, triedAtSelect,
             candidates, picks>>

blockVars == <<page, checked, blocked, faults>>

mainVars == <<pc, attempts, success, browser, live, page_content,
              captcha_found, login_success, rechecked, captcha_error_found,
              extracted, persisted, outcome, allBlocked, endedAt, report,
              opened, closes, login_call, scenario, passedAt>>

envVars == <<GOOGLE_EMAIL, GOOGLE_PASSWORD, environ>>

peerVars == <<peer_pc, peer_live, peer_fault>>

apiVars ==
    <<api_pc, api_browser, api_live, api_page_content, api_response, api_fault,
      api_opened, api_closes, api_proxy, CUSTOM_PROXY_SERVER,
      api_captcha_error_found, peerVars>>

vars == <<rotVars, blockVars, mainVars, envVars, script, apiVars>>

\* main.py:57: the None that get_random_proxy returns for an empty pool.
None == 0

\* ------------------------------------------------------------ ProxyRotator

\* A server is named by a number. Servers are opaque to the program, so a pool
\* is taken up to renaming: its servers are numbered by first appearance.
Canonical(pool) ==
    \A i \in DOMAIN pool :
        \/ pool[i] = 1
        \/ \E j \in 1..(i - 1) : pool[j] >= pool[i] - 1

\* The pools _load_proxies_from_env can produce, up to MaxPool entries: a
\* server may be configured under two names, so a pool may hold it twice.
Pools ==
    { pool \in UNION { [1..n -> 1..MaxPool] : n \in 0..MaxPool } :
        Canonical(pool) }

Servers(pool) == Range(pool)

DistinctServers(pool) ==
    \A i, j \in DOMAIN pool : i # j => pool[i] # pool[j]

\* main.py:60-61: "if all proxies have been tried, reset".
TriedResetOffByOne(pool, tried) ==
    IF Cardinality(tried) >= Len(pool) - 1 THEN {} ELSE tried

\* main.py:60-61 with the reset made on every call.
TriedResetAlways(pool, tried) == {}

\* main.py:60-61
TriedAfterReset(pool, tried) ==
    IF Cardinality(tried) >= Len(pool) THEN {} ELSE tried

\* main.py:64-65: the positions of the proxies not tried yet.
AvailableIgnoringTried(pool, tried) == DOMAIN pool

available_proxies(pool, tried) ==
    { i \in DOMAIN pool : pool[i] \notin tried }

\* get_random_proxy that never clears the tried set.
GetRandomProxyKeepsTried(pool, tried) ==
    IF pool = <<>>
    THEN { [proxy |-> None, tried |-> tried, atSelect |-> tried,
            candidates |-> {}] }
    ELSE LET avail == available_proxies(pool, tried)
             cand == IF avail = {} THEN DOMAIN pool ELSE avail
         IN  { [proxy |-> pool[i], tried |-> tried \cup {pool[i]},
                atSelect |-> tried, candidates |-> cand] : i \in cand }

\* main.py:54-76. The set of the results random.choice allows: the proxy
\* returned, the tried set afterwards, and the tried set and the candidates
\* at the moment of the choice.
get_random_proxy(pool, tried) ==
    IF pool = <<>>
    THEN { [proxy |-> None, tried |-> tried, atSelect |-> tried,
            candidates |-> {}] }
    ELSE LET t1 == TriedAfterReset(pool, tried)
             avail == available_proxies(pool, t1)
             t2 == IF avail = {} THEN {} ELSE t1
             cand == IF avail = {} THEN DOMAIN pool ELSE avail
         IN  { [proxy |-> pool[i], tried |-> t2 \cup {pool[i]},
                atSelect |-> t2, candidates |-> cand] : i \in cand }

\* A call that leaves the tried set as it was.
CallRotatorForgetful ==
    \E r \in get_random_proxy(proxies, tried_proxies) :
        /\ proxy_config' = r.proxy
        /\ tried_proxies' = tried_proxies
        /\ triedBefore' = tried_proxies
        /\ triedAtSelect' = r.atSelect
        /\ candidates' = r.candidates

\* The assignments of one call `proxy_config = rotator.get_random_proxy()`.
CallRotator ==
    \E r \in get_random_proxy(proxies, tried_proxies) :
        /\ proxy_config' = r.proxy
        /\ tried_proxies' = r.tried
        /\ triedBefore' = tried_proxies
        /\ triedAtSelect' = r.atSelect
        /\ candidates' = r.candidates

\* A proxy of the environment is named by the prefix of its variables:
\* CUSTOM_PROXY, GEONODE_PROXY, or GEONODE_PROXY_<index>. Its server stands
\* for itself: the servers of two names are taken to differ.
CustomProxy == [ name |-> "CUSTOM_PROXY", index |-> 0 ]

GeonodeProxy == [ name |-> "GEONODE_PROXY", index |-> 0 ]

NumberedProxy(i) == [ name |-> "GEONODE_PROXY", index |-> i ]

\* main.py:43: the stop of range(1, 10), and the number of numbered proxies
\* its comment speaks of.
NumberedStop == 10

\* range(1, 10)
NumberedRange == 1..(NumberedStop - 1)

\* The names an environment may configure: the two single ones and the
\* numbered ones from 1 to 10.
ProxyNames ==
    {CustomProxy, GeonodeProxy}
        \cup { NumberedProxy(i) : i \in 1..NumberedStop }

\* The environments: any of the names has its _SERVER variable set (to a
\* string that is not empty) or not.
Environs == SUBSET ProxyNames

\* The environment where the loader is not followed.
EnvironIdle == {}

\* main.py:23-52: the entries in the order they are appended.
load_proxies_from_env(env) ==
    (IF CustomProxy \in env THEN <<CustomProxy>> ELSE <<>>)
    \o (IF GeonodeProxy \in env THEN <<GeonodeProxy>> ELSE <<>>)
    \o SelectSeq([i \in NumberedRange |-> NumberedProxy(i)],
                 LAMBDA e : e \in env)

\* ProxyRotator.__init__ (main.py:19-21), of which the loader is followed.
LoadProxies ==
    /\ pc = "loader"
    /\ proxies' = load_proxies_from_env(environ)
    /\ tried_proxies' = {}
    /\ pc' = "loaded"
    /\ UNCHANGED <<proxy_config, triedBefore, triedAtSelect, candidates, picks,
                   blockVars, envVars, script, apiVars, attempts, success,
                   browser, live, page_content, captcha_found, login_success,
                   rechecked, captcha_error_found, extracted, persisted,
                   outcome, allBlocked, endedAt, report, opened, closes,
                   login_call, scenario, passedAt>>

\* ProxyRotator.__init__ (main.py:19-21)
RotatorInit ==
    /\ proxies \in Pools
    /\ tried_proxies = {}
    /\ proxy_config = None
    /\ triedBefore = {}
    /\ triedAtSelect = {}
    /\ candidates = {}
    /\ picks = <<>>

\* ------------------------------------------------------ is_shopee_blocking

\* main.py:87: a page of fewer characters is blank.
BlankThreshold == 100

\* main.py:137: a status from here on is an error.
ErrorStatus == 400

\* main.py:110-118: the selectors of the Google sign-in button, by position.
google_button_selectors == 1..7

\* What query_selector answers when it raises.
Raise == "raise"

\* page.content() raises: the content that stands for it.
ContentRaise == << <<"raise">> >>

\* page.last_response is None (main.py:368), or its status cannot be read.
NoResponse == 0

BadResponse == 0 - 1

\* page.url, as chunks: the product page, the identity provider's sign-in
\* page, and the sign-in page with the product page in its query string.
UrlProduct == <<"https://", "shopee", ".tw/", "---i.31188538.19323502897">>

UrlSignIn == <<"https://", "accounts.google.com/", "signin">>

UrlSignInContinue ==
    <<"https://", "accounts.google.com/", "signin?continue=", "shopee", ".tw">>

Urls == {UrlProduct, UrlSignIn, UrlSignInContinue}

\* The URL is one of the target domain, shopee.tw.
OnTargetDomain(url) == Len(url) >= 3 /\ url[2] = "shopee" /\ url[3] = ".tw/"

\* main.py:87,130: "shopee" in current_url
MentionsShopee(url) == Contains(url, <<"shopee">>)

\* What page.query_selector answers for each selector: an element, None, or
\* an exception. The first selector answers one way and the others another.
SelectorAnswers ==
    { [k \in google_button_selectors |-> IF k = 1 THEN a ELSE b] :
        a, b \in {"elem", "none", Raise} }

\* page.last_response: None, a response whose status cannot be read, or a
\* response with a status on either side of the threshold.
LastResponses == {NoResponse, BadResponse, ErrorStatus - 1, ErrorStatus}

\* A page as the detector sees it.
Pages ==
    [ url : Urls,
      content : Contents \cup {ContentRaise},
      sel : SelectorAnswers,
      last_response : LastResponses ]

\* main.py:87 when only an empty page counts as blank.
IsBlankEmptyOnly(content, url) ==
    StripLen(content) = 0 /\ MentionsShopee(url)

\* main.py:87
IsBlank(content, url) ==
    StripLen(content) < BlankThreshold /\ MentionsShopee(url)

\* main.py:104-107 with the last indicator left out of the scan.
HasBlockIndicatorButLast(content) ==
    ContainsAny(content, SubSeq(block_indicators, 1, Len(block_indicators) - 1))

\* main.py:104-107
HasBlockIndicator(content) == ContainsAny(content, block_indicators)

RECURSIVE ScanSelectors(_, _)
\* main.py:120-128: the loop from selector k on; an exception is passed over.
ScanSelectors(sel, k) ==
    IF k \notin google_button_selectors THEN FALSE
    ELSE IF sel[k] = "elem" THEN TRUE
    ELSE ScanSelectors(sel, k + 1)

\* main.py:120-128
found_expected_element(sel) == ScanSelectors(sel, 1)

\* main.py:135-139
StatusIsError(last_response) ==
    IF last_response = NoResponse THEN FALSE
    ELSE IF last_response = BadResponse THEN TRUE
    ELSE last_response >= ErrorStatus

\* is_shopee_blocking whose handler answers "not blocked".
IsShopeeBlockingFailOpen(p) ==
    IF p.content = ContentRaise THEN FALSE
    ELSE IF IsBlank(p.content, p.url) THEN TRUE
    ELSE IF HasBlockIndicator(p.content) THEN TRUE
    ELSE IF ~found_expected_element(p.sel) /\ MentionsShopee(p.url) THEN TRUE
    ELSE IF p.last_response = BadResponse THEN FALSE
    ELSE StatusIsError(p.last_response)

\* main.py:79-144
is_shopee_blocking(p) ==
    IF p.content = ContentRaise THEN TRUE
    ELSE IF IsBlank(p.content, p.url) THEN TRUE
    ELSE IF HasBlockIndicator(p.content) THEN TRUE
    ELSE IF ~found_expected_element(p.sel) /\ MentionsShopee(p.url) THEN TRUE
    ELSE StatusIsError(p.last_response)

\* The selectors the loop of main.py:121-128 queries: all up to the first
\* that answers an element.
Queried(sel) ==
    { k \in google_button_selectors :
        \A j \in 1..(k - 1) : sel[j] # "elem" }

\* The reads that raise during one call, in the order of the code.
FaultSites(p) ==
    IF p.content = ContentRaise THEN {"content"}
    ELSE IF IsBlank(p.content, p.url) \/ HasBlockIndicator(p.content) THEN {}
    ELSE LET marker == IF \E k \in Queried(p.sel) : p.sel[k] = Raise
                       THEN {"marker"} ELSE {}
         IN  IF ~found_expected_element(p.sel) /\ MentionsShopee(p.url)
             THEN marker
             ELSE marker \cup (IF p.last_response = BadResponse THEN {"status"} ELSE {})

\* The call blocked = await is_shopee_blocking(page).
CheckBlocking ==
    /\ ~checked
    /\ checked' = TRUE
    /\ blocked' = is_shopee_blocking(page)
    /\ faults' = FaultSites(page)
    /\ UNCHANGED <<page, rotVars, mainVars, envVars, script, apiVars>>

\* ---------------------------------------------- handle_google_login_process

\* What the popup answers to the steps of one call:
\*   load          the pause of main.py:151
\*   manual        the two minutes of main.py:159
\*   email         main.py:164-178, 201: "nofield" when the field does not come
\*                 (main.py:164 raises), "raise" when a call after it raises
\*   next          the click on Next (main.py:187-197)
\*   password      main.py:207-232, 255: "notfound" when no selector finds the
\*                 field, "raise" when a call of the step raises
\*   passwordNext  the click on Next (main.py:241-249)
\*   consent       main.py:299-306: a button was clicked, none was there, or
\*                 a call raises
\*   shot          the screenshot of a handler (main.py:314, 332)
LoginScripts ==
    [ load : {"ok", "raise"},
      manual : {"ok", "raise"},
      email : {"ok", "nofield", "raise"},
      next : {"ok", "raise"},
      password : {"ok", "notfound", "raise"},
      passwordNext : {"ok", "raise"},
      consent : {"clicked", "none", "raise"},
      shot : {"ok", "raise"} ]

\* A block of the function ends with "True" or "False" (what it returns) or
\* with "Raise" (an exception leaves it).

\* main.py:258-319 where only a click on a consent button gives True.
ConsentBlockStrict(s) == IF s.consent = "clicked" THEN "True" ELSE "False"

\* main.py:258-319: the consent screen. The handler of main.py:310 returns
\* True as well; its screenshot is guarded.
ConsentBlock(s) == "True"

\* main.py:205-319 without the `else` of main.py:250-252.
PasswordBodySkipsField(s) ==
    IF s.password = "raise" THEN "Raise" ELSE ConsentBlock(s)

\* main.py:205-319 without the handler. A fault of the click on Next is
\* passed over (main.py:248).
PasswordBody(s) ==
    IF s.password = "raise" THEN "Raise"
    ELSE IF s.password = "notfound" THEN "False"
    ELSE ConsentBlock(s)

\* main.py:205-323
PasswordBlock(s) ==
    IF PasswordBody(s) = "Raise" THEN "False" ELSE PasswordBody(s)

\* main.py:163-323 when a field that does not come is passed over.
EmailBodySkipsField(s) ==
    IF s.email = "raise" THEN "Raise" ELSE PasswordBlock(s)

\* main.py:163-323 without the handler. A fault of the click on Next is
\* passed over (main.py:196).
EmailBody(s) ==
    IF s.email \in {"nofield", "raise"} THEN "Raise" ELSE PasswordBlock(s)

\* main.py:163-327
EmailBlock(s) ==
    IF EmailBody(s) = "Raise" THEN "False" ELSE EmailBody(s)

\* main.py:155 with `and` for `or`.
CredentialsMissingBoth(email_set, password_set) == ~email_set /\ ~password_set

\* main.py:155: `not GOOGLE_EMAIL or not GOOGLE_PASSWORD`
CredentialsMissing(email_set, password_set) == ~email_set \/ ~password_set

\* main.py:149-327 without the handler of main.py:329.
LoginBody(email_set, password_set, s) ==
    IF s.load = "raise" THEN "Raise"
    ELSE IF CredentialsMissing(email_set, password_set)
    THEN IF s.manual = "raise" THEN "Raise" ELSE "False"
    ELSE EmailBlock(s)

\* The fields the call typed into.
Typed(email_set, password_set, s) ==
    IF s.load = "raise" \/ CredentialsMissing(email_set, password_set)
       \/ s.email = "nofield"
    THEN {}
    ELSE IF s.email = "raise" \/ s.password = "notfound"
    THEN {"email"}
    ELSE {"email", "password"}

\* The steps the call went through, in the order of the code: "email" when
\* every character of the email was typed (main.py:171-175), "password" when
\* every character of the password was (main.py:225-229), "consent" when the
\* consent block was entered (main.py:258).
StepsRun(email_set, password_set, s) ==
    IF s.load = "raise" \/ CredentialsMissing(email_set, password_set)
       \/ s.email # "ok"
    THEN <<>>
    ELSE IF s.password # "ok"
    THEN <<"email">>
    ELSE <<"email", "password", "consent">>

\* The call sat through the two minutes of main.py:159.
WaitedManual(email_set, password_set, s) ==
    /\ s.load = "ok"
    /\ CredentialsMissing(email_set, password_set)
    /\ s.manual = "ok"

\* The steps of the call that raised.
FaultedSteps(email_set, password_set, s) ==
    IF s.load = "raise"
    THEN {"load"} \cup (IF s.shot = "raise" THEN {"shot"} ELSE {})
    ELSE IF CredentialsMissing(email_set, password_set)
    THEN IF s.manual = "raise"
         THEN {"manual"} \cup (IF s.shot = "raise" THEN {"shot"} ELSE {})
         ELSE {}
    ELSE IF s.email # "ok" THEN {"email"}
    ELSE (IF s.next = "raise" THEN {"next"} ELSE {})
         \cup (IF s.password = "raise" THEN {"password"} ELSE {})
         \cup (IF s.password = "ok" /\ s.passwordNext = "raise"
               THEN {"passwordNext"} ELSE {})
         \cup (IF s.password = "ok" /\ s.consent = "raise"
               THEN {"consent"} ELSE {})
         \cup (IF s.password = "ok" /\ s.consent = "raise" /\ s.shot = "raise"
               THEN {"shot"} ELSE {})

\* handle_google_login_process without the handler of main.py:329.
HandleLoginUncaught(email_set, password_set, s) ==
    [ called |-> TRUE,
      result |-> LoginBody(email_set, password_set, s),
      typed |-> Typed(email_set, password_set, s),
      waited |-> WaitedManual(email_set, password_set, s),
      caught |-> FALSE ]

\* main.py:147-335: what the call returns ("Raise" when an exception leaves
\* it), and what it did on the way: the fields it typed into, whether it sat
\* through the two minutes, and whether the handler of main.py:329 caught an
\* exception.
handle_google_login_process(email_set, password_set, s) ==
    [ called |-> TRUE,
      result |-> IF LoginBody(email_set, password_set, s) = "Raise"
                 THEN "False"
                 ELSE LoginBody(email_set, password_set, s),
      typed |-> Typed(email_set, password_set, s),
      waited |-> WaitedManual(email_set, password_set, s),
      caught |-> LoginBody(email_set, password_set, s) = "Raise" ]

\* No call of handle_google_login_process yet.
NoCall ==
    [ called |-> FALSE, result |-> "False", typed |-> {}, waited |-> FALSE,
      caught |-> FALSE ]

\* What a call can come to, for each setting of the two variables.
LoginOutcomes ==
    [ email_set \in BOOLEAN, password_set \in BOOLEAN |->
        { handle_google_login_process(email_set, password_set, s) :
            s \in LoginScripts } ]

\* The call login_popup_success = await handle_google_login_process(...)
\* on its own.
CallLogin ==
    /\ ~login_call.called
    /\ login_call' =
          handle_google_login_process(GOOGLE_EMAIL, GOOGLE_PASSWORD, script)
    /\ UNCHANGED <<rotVars, blockVars, envVars, script, apiVars, pc, attempts,
                   success, browser, live, page_content, captcha_found,
                   login_success, rechecked, captcha_error_found, extracted,
                   persisted, outcome, allBlocked, endedAt, report, opened,
                   closes,
                   scenario, passedAt>>

\* -------------------------------------------------------------------- main

\* main.py:399
max_attempts_before_break == 10

\* main.py:724 with the threshold of main.py:87.
LoginBlankThresholdSame == BlankThreshold

\* main.py:724: after the login a page of fewer characters is blank.
LoginBlankThreshold == 200

\* What an awaited browser call raises: PlaywrightTimeoutError, or another
\* exception.
Exceptions == {"timeout", "error"}

\* An awaited browser call returns ("ok") or raises.
Returns == {"ok"} \cup Exceptions

\* The classification the handlers of main.py:768-782 give an exception.
TagOf(exc) == IF exc = "timeout" THEN "Timeout" ELSE "UnexpectedError"

\* The contents main reads from a page: one snippet, or nothing.
MainContents == ContentsUpTo(1)

\* The pages main hands to is_shopee_blocking. page.last_response is None:
\* main.py:368 sets it so, the route of main.py:369 is never awaited, and
\* handle_route would store what route.continue_() returns, which is None.
MainPages ==
    [ url : Urls,
      content : MainContents \cup {ContentRaise},
      sel : SelectorAnswers,
      last_response : {NoResponse} ]

\* main.py:387 with the test left out.
NoProxiesNever(pool) == FALSE

\* main.py:387: `not proxy_rotator.proxies`
NoProxies(pool) == pool = <<>>

\* main.py:402 with <= for <.
LoopContinuesOneMore(succ, n) == ~succ /\ n <= max_attempts_before_break

\* main.py:402: the condition of the while loop.
LoopContinues(succ, n) == ~succ /\ n < max_attempts_before_break

\* main.py:542-547 applied to the content read before the wait.
ScanCaptchaErrorsStale(before, after) ==
    ContainsAny(before, captcha_error_texts)

\* main.py:528,542-547: `before` is page_content as read at main.py:495,
\* `after` the content read again at main.py:528, which the scan looks at.
ScanCaptchaErrors(before, after) ==
    ContainsAny(after, captcha_error_texts)

\* main.py:486 with the result of the login left aside.
ProceedsAfterLoginAlways(result) == TRUE

\* main.py:486: `if login_popup_success:` guards everything up to main.py:734.
ProceedsAfterLogin(result) == result = "True"

\* main.py:514 with the wait entered whatever the search found.
RunsCaptchaWaitAlways(found) == TRUE

\* main.py:514: `if captcha_found:` guards the captcha wait.
RunsCaptchaWait(found) == found

\* main.py:704-709
app_error_found(content) == ContainsAny(content, app_only_error_texts)

\* main.py:724 with no page taken for blank.
IsBlankAfterLoginNever(content) == FALSE

\* main.py:724
IsBlankAfterLogin(content) == StripLen(content) < LoginBlankThreshold

\* The attempt ends with `tag`, at the position main is in; allBlocked
\* follows.
Classify(tag) ==
    /\ outcome' = tag
    /\ allBlocked' = (allBlocked /\ tag = "Blocked")
    /\ endedAt' = pc

\* await browser.close() on an open session, then `continue` or the end of
\* the loop body (main.py:421-422, 465-466, 561-562, 720-721, 733-734,
\* 740-741, 766).
CloseAndContinue(tag) ==
    /\ browser' = "closed"
    /\ live' = IF browser = "open" THEN live - 1 ELSE live
    /\ closes' = IF browser = "open" THEN closes + 1 ELSE closes
    /\ pc' = "loop"
    /\ Classify(tag)

\* main.py:768-782: the handlers of the attempt's try. The screenshot is
\* tried and its failure passed over; then `await browser.close()`: when
\* `browser` was never bound it raises UnboundLocalError inside the handler,
\* which leaves the loop and is caught at main.py:789; on a session already
\* closed it does nothing. `nowLive` is the number of open sessions when the
\* exception arrives.
OuterHandler(exc, nowLive) ==
    /\ Classify(TagOf(exc))
    /\ IF browser = "unbound"
       THEN /\ pc' = "critical"
            /\ live' = nowLive
            /\ UNCHANGED <<browser, closes>>
       ELSE /\ pc' = "loop"
            /\ browser' = "closed"
            /\ live' = IF browser = "open" THEN nowLive - 1 ELSE nowLive
            /\ closes' = IF browser = "open" THEN closes + 1 ELSE closes

\* main.py:736-741 without the close of main.py:740.
InnerHandlerNoClose(tag) ==
    /\ pc' = "loop"
    /\ Classify(tag)
    /\ UNCHANGED <<browser, live, closes>>

\* main.py:736-741: the handler of the login's try. The screenshot is not
\* guarded: when it raises, the exception goes to the handlers of
\* main.py:768-782.
InnerHandler(tag) ==
    \E shot \in Returns :
        IF shot = "ok" THEN CloseAndContinue(tag)
        ELSE OuterHandler(shot, live)

\* The scenario of two proxies, of which the detector always blocks the first
\* and never the second.
ScenarioPool == <<1, 2>>

\* The scenario when a launch or a navigation has failed: it is left unless
\* the block check has been passed.
ScenarioAfterFault == scenario /\ passedAt # 0

\* The scenario when the detector has answered `isBlocked` for the proxy of
\* the attempt: before the first pass the answer must be the scenario's.
ScenarioAfterCheck(isBlocked) ==
    scenario /\ (passedAt # 0 \/ (isBlocked <=> proxy_config = ScenarioPool[1]))

\* main.py:383-400
MainStart ==
    /\ pc = "start"
    /\ IF NoProxies(proxies)
       THEN pc' = "aborted"
       ELSE \E r \in {"ok", "error"} :
               pc' = IF r = "ok" THEN "loop" ELSE "critical"
    /\ UNCHANGED <<rotVars, blockVars, envVars, script, apiVars, opened,
                   scenario, passedAt, login_call,
                   attempts, success, browser, live,
                   page_content, captcha_found, login_success, rechecked,
                   captcha_error_found, extracted, persisted, outcome,
                   allBlocked, endedAt, report, closes>>

\* main.py:402-406: the loop goes on; a proxy is drawn and the attempt
\* counted. proxy_config['server'] of main.py:406 raises on None, outside the
\* attempt's try.
SelectProxy ==
    /\ pc = "loop"
    /\ LoopContinues(success, attempts)
    /\ CallRotator
    /\ attempts' = attempts + 1
    /\ pc' = IF proxy_config' = None THEN "critical" ELSE "launch"
    /\ outcome' = "none"
    /\ page_content' = <<>>
    /\ captcha_found' = FALSE
    /\ login_success' = FALSE
    /\ rechecked' = FALSE
    /\ captcha_error_found' = FALSE
    /\ extracted' = FALSE
    /\ persisted' = FALSE
    /\ opened' = 0
    /\ closes' = 0
    /\ login_call' = NoCall
    /\ endedAt' = "none"
    /\ UNCHANGED <<proxies, picks, blockVars, envVars, script, apiVars,
                   success, browser, live, allBlocked, report, scenario,
                   passedAt>>

\* main.py:402, 784-787: the loop ends and the result is printed.
LoopExit ==
    /\ pc = "loop"
    /\ ~LoopContinues(success, attempts)
    /\ report' = IF success THEN "success" ELSE "failure"
    /\ pc' = "done"
    /\ UNCHANGED <<rotVars, blockVars, envVars, script, apiVars, opened,
                   scenario, passedAt, login_call,
                   attempts, success, browser, live,
                   page_content, captcha_found, login_success, rechecked,
                   captcha_error_found, extracted, persisted, outcome,
                   allBlocked, endedAt, closes>>

\* main.py:409, 338-371: the session is opened and bound to `browser`; or
\* the launch raises before a session exists; or the session is opened and a
\* later call of launch_browser_with_proxy raises, so that `browser` is not
\* bound to it.
Launch ==
    /\ pc = "launch"
    /\ \/ /\ browser' = "open"
          /\ live' = live + 1
          /\ opened' = opened + 1
          /\ pc' = "goto"
          /\ UNCHANGED <<closes, outcome, allBlocked, endedAt, scenario>>
       \/ /\ \E exc \in Exceptions : OuterHandler(exc, live)
          /\ scenario' = ScenarioAfterFault
          /\ UNCHANGED opened
       \/ /\ \E exc \in Exceptions : OuterHandler(exc, live + 1)
          /\ scenario' = ScenarioAfterFault
          /\ opened' = opened + 1
    /\ UNCHANGED <<rotVars, blockVars, envVars, script, apiVars, passedAt,
                   login_call,
                   attempts, success, page_content, captcha_found,
                   login_success, rechecked, captcha_error_found, extracted,
                   persisted, report>>

\* main.py:413-416
Goto ==
    /\ pc = "goto"
    /\ \E r \in Returns :
          IF r = "ok"
          THEN /\ pc' = "check"
               /\ UNCHANGED <<browser, live, closes, outcome, allBlocked,
                              endedAt,
                              scenario>>
          ELSE /\ OuterHandler(r, live)
               /\ scenario' = ScenarioAfterFault
    /\ UNCHANGED <<rotVars, blockVars, envVars, script, apiVars, opened,
                   passedAt, login_call,
                   attempts, success, page_content, captcha_found,
                   login_success, rechecked, captcha_error_found, extracted,
                   persisted, report>>

\* main.py:419-425
BlockCheck ==
    /\ pc = "check"
    /\ \E p \in MainPages :
          /\ IF is_shopee_blocking(p)
             THEN CloseAndContinue("Blocked")
             ELSE /\ pc' = "button"
                  /\ UNCHANGED <<browser, live, closes, outcome, allBlocked,
                                 endedAt>>
          /\ scenario' = ScenarioAfterCheck(is_shopee_blocking(p))
          /\ passedAt' = IF scenario' /\ passedAt = 0 /\ ~is_shopee_blocking(p)
                         THEN attempts
                         ELSE passedAt
    /\ UNCHANGED <<rotVars, blockVars, envVars, script, apiVars, opened,
                   login_call,
                   attempts, success, page_content, captcha_found,
                   login_success, rechecked, captcha_error_found, extracted,
                   persisted, report>>

\* main.py:428-466: the language dialog (its faults are passed over), the
\* pause, and the search for the Google button.
FindButton ==
    /\ pc = "button"
    /\ \E r \in Returns, found \in BOOLEAN :
          IF r # "ok" THEN OuterHandler(r, live)
          ELSE IF ~found THEN CloseAndContinue("LoginFailed")
          ELSE /\ pc' = "popup"
               /\ UNCHANGED <<browser, live, closes, outcome, allBlocked,
                              endedAt>>
    /\ UNCHANGED <<rotVars, blockVars, envVars, script, apiVars, opened,
                   scenario, passedAt, login_call,
                   attempts, success, page_content, captcha_found,
                   login_success, rechecked, captcha_error_found, extracted,
                   persisted, report>>

\* main.py:469-480: the click, and the wait for the popup; a popup that does
\* not come in time raises into the handler of main.py:736.
Popup ==
    /\ pc = "popup"
    /\ login_success' = FALSE
    /\ \E r \in Returns :
          IF r = "ok"
          THEN /\ pc' = "login"
               /\ UNCHANGED <<browser, live, closes, outcome, allBlocked,
                              endedAt>>
          ELSE InnerHandler("LoginFailed")
    /\ UNCHANGED <<rotVars, blockVars, envVars, script, apiVars, opened,
                   scenario, passedAt, login_call,
                   attempts, success, page_content,
                   captcha_found, rechecked, captcha_error_found, extracted,
                   persisted, report>>

\* main.py:484-486, 743, 763-766: the call of handle_google_login_process.
\* On False the body falls through to main.py:743 with login_success False,
\* and the session is closed at main.py:766; an exception out of the call
\* would go to the handler of main.py:736.
Login ==
    /\ pc = "login"
    /\ \E r \in LoginOutcomes[GOOGLE_EMAIL, GOOGLE_PASSWORD] :
          /\ login_call' = r
          /\ IF r.result = "Raise"
             THEN InnerHandler("LoginFailed")
             ELSE IF ProceedsAfterLogin(r.result)
             THEN /\ pc' = "postlogin"
                  /\ UNCHANGED <<browser, live, closes, outcome, allBlocked,
                                 endedAt>>
             ELSE CloseAndContinue("LoginFailed")
    /\ UNCHANGED <<rotVars, blockVars, envVars, script, apiVars, opened,
                   scenario, passedAt,
                   attempts, success, page_content, captcha_found,
                   login_success, rechecked, captcha_error_found, extracted,
                   persisted, report>>

\* main.py:488-520: the pause, the content, the search for the captcha.
PostLogin ==
    /\ pc = "postlogin"
    /\ \E r \in Returns :
          IF r # "ok"
          THEN /\ InnerHandler("LoginFailed")
               /\ UNCHANGED <<page_content, captcha_found, login_success>>
          ELSE \E c \in MainContents, found \in BOOLEAN :
                  /\ page_content' = c
                  /\ captcha_found' = found
                  /\ login_success' = found
                  /\ pc' = IF RunsCaptchaWait(found) THEN "captcha_wait"
                           ELSE "app_check"
                  /\ UNCHANGED <<browser, live, closes, outcome, allBlocked,
                                 endedAt>>
    /\ UNCHANGED <<rotVars, blockVars, envVars, script, apiVars, opened,
                   scenario, passedAt, login_call,
                   attempts, success, rechecked,
                   captcha_error_found, extracted, persisted, report>>

\* main.py:522-564: the four minutes, the content read again, and the
\* classification. The captcha error is recorded (main.py:554) before the
\* screenshot of main.py:558, whose exception goes to the handler of
\* main.py:736.
CaptchaWait ==
    /\ pc = "captcha_wait"
    /\ \E r \in Returns :
          IF r # "ok"
          THEN /\ InnerHandler("LoginFailed")
               /\ UNCHANGED <<page_content, login_success, rechecked,
                              captcha_error_found>>
          ELSE \E c \in MainContents :
                  /\ page_content' = c
                  /\ rechecked' = TRUE
                  /\ captcha_error_found' = ScanCaptchaErrors(page_content, c)
                  /\ IF captcha_error_found'
                     THEN /\ login_success' = FALSE
                          /\ \E shot \in Returns :
                                IF shot = "ok"
                                THEN CloseAndContinue("CaptchaError")
                                ELSE InnerHandler("LoginFailed")
                     ELSE /\ pc' = "extract"
                          /\ outcome' = "CaptchaSuccess"
                          /\ UNCHANGED <<browser, live, closes, allBlocked,
                                         endedAt,
                                         login_success>>
    /\ UNCHANGED <<rotVars, blockVars, envVars, script, apiVars, opened,
                   scenario, passedAt, login_call,
                   attempts, success, captcha_found,
                   extracted, persisted, report>>

\* main.py:566-694: the pause, then the extraction in its own try, whose
\* handler (main.py:692) passes every fault over: the record is written only
\* when nothing raised.
Extract ==
    /\ pc = "extract"
    /\ \E r \in Returns :
          IF r # "ok"
          THEN /\ InnerHandler("LoginFailed")
               /\ UNCHANGED <<extracted, persisted>>
          ELSE \E saved \in BOOLEAN :
                  /\ extracted' = TRUE
                  /\ persisted' = saved
                  /\ pc' = "app_check"
                  /\ UNCHANGED <<browser, live, closes, outcome, allBlocked,
                                 endedAt>>
    /\ UNCHANGED <<rotVars, blockVars, envVars, script, apiVars, opened,
                   scenario, passedAt, login_call,
                   attempts, success, page_content,
                   captcha_found, login_success, rechecked,
                   captcha_error_found, report>>

\* main.py:696-734: page_content is looked at again, for the app-only error
\* and for a blank page.
AppCheck ==
    /\ pc = "app_check"
    /\ IF app_error_found(page_content)
       THEN /\ login_success' = FALSE
            /\ CloseAndContinue("AppOnlyError")
       ELSE IF IsBlankAfterLogin(page_content)
       THEN /\ login_success' = FALSE
            /\ CloseAndContinue("BlankPage")
       ELSE /\ pc' = "final"
            /\ UNCHANGED <<browser, live, closes, outcome, allBlocked, endedAt,
                           login_success>>
    /\ UNCHANGED <<rotVars, blockVars, envVars, script, apiVars, opened,
                   scenario, passedAt, login_call,
                   attempts, success, page_content,
                   captcha_found, rechecked, captcha_error_found, extracted,
                   persisted, report>>

\* main.py:743-766: with login_success the run has succeeded (the faults of
\* saving the result are passed over, main.py:758) and the page is kept for
\* thirty seconds, a wait that may raise into main.py:768-782; without it the
\* attempt has failed. The session is closed either way.
Final ==
    /\ pc = "final"
    /\ IF login_success
       THEN /\ success' = TRUE
            /\ \E r \in Returns :
                  IF r = "ok" THEN CloseAndContinue("Success")
                  ELSE OuterHandler(r, live)
       ELSE /\ CloseAndContinue("LoginFailed")
            /\ UNCHANGED success
    /\ UNCHANGED <<rotVars, blockVars, envVars, script, apiVars, opened,
                   scenario, passedAt, login_call,
                   attempts, page_content, captcha_found,
                   login_success, rechecked, captcha_error_found, extracted,
                   persisted, report>>

\* --------------------------------------------------- scrape_shopee_product

\* What the client receives: a ScrapingResponse (`structured`) or the HTTP
\* error FastAPI makes of an HTTPException. `raw` says that the message
\* carries str(e) of an exception.
Structured(ok, msg, raw) ==
    [ kind |-> "structured", success |-> ok, message |-> msg, raw |-> raw ]

\* api.py:283: HTTPException(status_code=500, detail="Server error: " + str(e))
HttpError ==
    [ kind |-> "http_error", success |-> FALSE, message |-> "server_error",
      raw |-> TRUE ]

NoResponseYet ==
    [ kind |-> "none", success |-> FALSE, message |-> "none", raw |-> FALSE ]

\* The request has its answer `resp`; `fault` is what went wrong. What is
\* left is to leave the block of api.py:189.
ApiRespond(resp, fault) ==
    /\ api_response' = resp
    /\ api_fault' = fault
    /\ api_pc' = "exit"

\* api.py:282-283 answering with a ScrapingResponse.
ApiOuterHandlerStructured(fault) ==
    ApiRespond(Structured(FALSE, "server_error", FALSE), fault)

\* api.py:282-283: the handler of the request's outer try.
ApiOuterHandler(fault) == ApiRespond(HttpError, fault)

\* The ScrapingResponse of the handlers of api.py:269-281.
ApiFailure(exc) ==
    IF exc = "timeout"
    THEN Structured(FALSE, "timeout", FALSE)
    ELSE Structured(FALSE, "error", TRUE)

\* await browser.close() returns (api.py:245, 260, 270, 277).
ApiClosed ==
    /\ api_browser' = "closed"
    /\ api_live' = IF api_browser = "open" THEN api_live - 1 ELSE api_live
    /\ api_closes' = IF api_browser = "open" THEN api_closes + 1
                     ELSE api_closes

\* api.py:269-281 without the close of api.py:270, 277.
ApiInnerHandlerNoClose(exc) ==
    /\ UNCHANGED <<api_browser, api_live, api_closes>>
    /\ ApiRespond(ApiFailure(exc), exc)

\* api.py:269-281: the handlers of the request's inner try: the session is
\* closed and a ScrapingResponse returned; when the close raises, the
\* exception goes to api.py:282.
ApiInnerHandler(exc) ==
    \E cl \in {"ok", "raise"} :
        IF cl = "ok"
        THEN /\ ApiClosed
             /\ ApiRespond(ApiFailure(exc), exc)
        ELSE /\ UNCHANGED <<api_browser, api_live, api_closes>>
             /\ ApiOuterHandler("handler_close")

\* api.py:245-249, 260-267: the session is closed and `resp` returned; when
\* the close raises, the exception goes to the handlers of api.py:269-281.
ApiCloseAndRespond(resp, fault) ==
    \/ /\ ApiClosed
       /\ ApiRespond(resp, fault)
    \/ \E exc \in Exceptions : ApiInnerHandler(exc)

\* api.py:237-242: the scan of the content read at api.py:226.
ApiScanCaptchaErrors(content) == ContainsAny(content, api_captcha_error_texts)

\* api.py:246-249
CaptchaFailed == Structured(FALSE, "captcha_failed", FALSE)

\* api.py:34-40: the proxy of the session: the custom proxy when
\* CUSTOM_PROXY_SERVER is set, none otherwise.
ApiProxyConfig(custom_set) == IF custom_set THEN "custom" ELSE "none"

\* api.py:47-48 with the profile taken for free whoever holds it.
ProfileFreeAlways(in_use) == TRUE

\* api.py:47-48: every request launches its persistent context on the one
\* profile '.user_data'. The browser does not start a second instance on a
\* user data directory that an instance holds (the new process hands over to
\* the running one and exits), so the launch succeeds only on a profile that
\* no open session holds; `in_use` is the number of those sessions.
ProfileFree(in_use) == in_use = 0

\* api.py:189-190, 30-72: the session is opened and bound to `browser`; or
\* the launch raises before a session exists, or after, and the exception
\* goes to api.py:282. On a profile in use it raises before a session exists.
ApiLaunch ==
    /\ api_pc = "start"
    /\ \/ /\ ProfileFree(peer_live)
          /\ api_browser' = "open"
          /\ api_live' = api_live + 1
          /\ api_opened' = api_opened + 1
          /\ api_proxy' = ApiProxyConfig(CUSTOM_PROXY_SERVER)
          /\ api_pc' = "goto"
          /\ UNCHANGED <<api_response, api_fault>>
       \/ /\ ApiOuterHandler("launch")
          /\ UNCHANGED <<api_browser, api_live, api_opened, api_proxy>>
       \/ /\ ProfileFree(peer_live)
          /\ ApiOuterHandler("launch")
          /\ api_live' = api_live + 1
          /\ api_opened' = api_opened + 1
          /\ api_proxy' = ApiProxyConfig(CUSTOM_PROXY_SERVER)
          /\ UNCHANGED api_browser
    /\ UNCHANGED <<rotVars, blockVars, mainVars, envVars, script, peerVars,
                   api_page_content, api_closes, CUSTOM_PROXY_SERVER,
                   api_captcha_error_found>>

\* api.py:195-198
ApiGoto ==
    /\ api_pc = "goto"
    /\ \E r \in Returns :
          IF r = "ok"
          THEN /\ api_pc' = "captcha"
               /\ UNCHANGED <<api_browser, api_live, api_closes,
                              api_response, api_fault>>
          ELSE ApiInnerHandler(r)
    /\ UNCHANGED <<rotVars, blockVars, mainVars, envVars, script, peerVars,
                   api_page_content, api_opened, api_proxy,
                   CUSTOM_PROXY_SERVER, api_captcha_error_found>>

\* api.py:201-251: the search for the captcha (its faults are passed over);
\* with a captcha the four minutes, the content, and the scan for a captcha
\* error.
ApiCaptcha ==
    /\ api_pc = "captcha"
    /\ \E found \in BOOLEAN :
          IF ~found
          THEN /\ api_pc' = "scrape"
               /\ UNCHANGED <<api_browser, api_live, api_closes,
                              api_response, api_fault, api_page_content,
                              api_captcha_error_found>>
          ELSE \E r \in Returns :
                  IF r # "ok"
                  THEN /\ ApiInnerHandler(r)
                       /\ UNCHANGED <<api_page_content,
                                      api_captcha_error_found>>
                  ELSE \E c \in Contents :
                          /\ api_page_content' = c
                          /\ api_captcha_error_found' = ApiScanCaptchaErrors(c)
                          /\ IF api_captcha_error_found'
                             THEN ApiCloseAndRespond(CaptchaFailed,
                                                     "captcha_error")
                             ELSE /\ api_pc' = "scrape"
                                  /\ UNCHANGED <<api_browser, api_live,
                                                 api_closes, api_response,
                                                 api_fault>>
    /\ UNCHANGED <<rotVars, blockVars, mainVars, envVars, script, peerVars,
                   api_opened, api_proxy, CUSTOM_PROXY_SERVER>>

\* api.py:254-267: the pause and scrape_product_data (api.py:74-184), then the
\* session is closed and the data returned.
ApiScrape ==
    /\ api_pc = "scrape"
    /\ \E r \in Returns :
          IF r = "ok"
          THEN ApiCloseAndRespond(Structured(TRUE, "scraped", FALSE), "none")
          ELSE ApiInnerHandler(r)
    /\ UNCHANGED <<rotVars, blockVars, mainVars, envVars, script, peerVars,
                   api_page_content, api_opened, api_proxy,
                   CUSTOM_PROXY_SERVER, api_captcha_error_found>>

\* api.py:189: the request leaves `async with async_playwright()`, by a
\* return or by an exception on its way to api.py:282. The exit stops the
\* driver, and with it every session the driver still holds; then the client
\* receives the answer.
ApiExit ==
    /\ api_pc = "exit"
    /\ api_live' = 0
    /\ api_pc' = "done"
    /\ UNCHANGED <<rotVars, blockVars, mainVars, envVars, script, peerVars,
                   api_browser, api_page_content, api_response, api_fault,
                   api_opened, api_closes, api_proxy, CUSTOM_PROXY_SERVER,
                   api_captcha_error_found>>

\* What a peer action leaves alone: everything but the peer.
PeerFrame ==
    UNCHANGED <<rotVars, blockVars, mainVars, envVars, script, api_pc,
                api_browser, api_live, api_page_content, api_response,
                api_fault, api_opened, api_closes, api_proxy,
                CUSTOM_PROXY_SERVER, api_captcha_error_found>>

\* api.py:189-190 in the second request: as ApiLaunch, on the same profile.
PeerLaunch ==
    /\ peer_pc = "start"
    /\ \/ /\ ProfileFree(api_live)
          /\ peer_live' = peer_live + 1
          /\ peer_pc' = "open"
          /\ UNCHANGED peer_fault
       \/ /\ peer_pc' = "exit"
          /\ peer_fault' = IF ProfileFree(api_live) THEN "launch"
                           ELSE "profile_in_use"
          /\ UNCHANGED peer_live
       \/ /\ ProfileFree(api_live)
          /\ peer_live' = peer_live + 1
          /\ peer_pc' = "exit"
          /\ peer_fault' = "launch"
    /\ PeerFrame

\* api.py:195-281 in the second request: whatever its steps come to, the
\* request ends with `await browser.close()` on its session, which returns
\* or raises.
PeerFinish ==
    /\ peer_pc = "open"
    /\ \E cl \in {"ok", "raise"} :
          /\ peer_live' = IF cl = "ok" THEN peer_live - 1 ELSE peer_live
          /\ peer_fault' = IF cl = "ok" THEN peer_fault ELSE "handler_close"
    /\ peer_pc' = "exit"
    /\ PeerFrame

\* api.py:189 in the second request: as ApiExit.
PeerExit ==
    /\ peer_pc = "exit"
    /\ peer_live' = 0
    /\ peer_pc' = "done"
    /\ UNCHANGED peer_fault
    /\ PeerFrame

\* ---------------------------------------------------------- specifications

BlockIdle ==
    /\ page = [url |-> UrlProduct, content |-> <<>>,
               sel |-> [k \in google_button_selectors |-> "none"],
               last_response |-> NoResponse]
    /\ checked = FALSE
    /\ blocked = FALSE
    /\ faults = {}

MainIdle(at) ==
    /\ pc = at
    /\ attempts = 0
    /\ success = FALSE
    /\ browser = "unbound"
    /\ live = 0
    /\ page_content = <<>>
    /\ captcha_found = FALSE
    /\ login_success = FALSE
    /\ rechecked = FALSE
    /\ captcha_error_found = FALSE
    /\ extracted = FALSE
    /\ persisted = FALSE
    /\ outcome = "none"
    /\ allBlocked = TRUE
    /\ report = "none"
    /\ opened = 0
    /\ closes = 0
    /\ login_call = NoCall
    /\ passedAt = 0
    /\ endedAt = "none"

\* The environment: each of the two variables is set or not.
EnvInit ==
    /\ GOOGLE_EMAIL \in BOOLEAN
    /\ GOOGLE_PASSWORD \in BOOLEAN
    /\ environ = EnvironIdle

\* A popup that answers every step.
ScriptIdle ==
    [ load |-> "ok", manual |-> "ok", email |-> "ok", next |-> "ok",
      password |-> "ok", passwordNext |-> "ok", consent |-> "clicked",
      shot |-> "ok" ]

\* No second request.
PeerIdle ==
    /\ peer_pc = "idle"
    /\ peer_live = 0
    /\ peer_fault = "none"

\* No request.
ApiIdle ==
    /\ api_pc = "idle"
    /\ api_browser = "unbound"
    /\ api_live = 0
    /\ api_page_content = <<>>
    /\ api_response = NoResponseYet
    /\ api_fault = "none"
    /\ api_opened = 0
    /\ api_closes = 0
    /\ api_proxy = "unset"
    /\ CUSTOM_PROXY_SERVER = FALSE
    /\ api_captcha_error_found = FALSE
    /\ PeerIdle

\* The run of main().
Init ==
    /\ RotatorInit
    /\ BlockIdle
    /\ MainIdle("start")
    /\ scenario = (proxies = ScenarioPool)
    /\ EnvInit
    /\ script = ScriptIdle
    /\ ApiIdle

Next ==
    \/ MainStart
    \/ SelectProxy
    \/ LoopExit
    \/ Launch
    \/ Goto
    \/ BlockCheck
    \/ FindButton
    \/ Popup
    \/ Login
    \/ PostLogin
    \/ CaptchaWait
    \/ Extract
    \/ AppCheck
    \/ Final

Spec == Init /\ [][Next]_vars

\* A rotator on its own: get_random_proxy is called MaxCalls times.
RotatorCall ==
    /\ Len(picks) < MaxCalls
    /\ CallRotator
    /\ picks' = Append(picks, proxy_config')
    /\ UNCHANGED <<proxies, blockVars, mainVars, envVars, script, apiVars>>

InitRotator ==
    /\ RotatorInit
    /\ BlockIdle
    /\ MainIdle("rotator")
    /\ scenario = FALSE
    /\ GOOGLE_EMAIL = TRUE
    /\ GOOGLE_PASSWORD = TRUE
    /\ environ = EnvironIdle
    /\ script = ScriptIdle
    /\ ApiIdle

NextRotator == RotatorCall

SpecRotator == InitRotator /\ [][NextRotator]_vars

\* The detector on its own: one call on any page.
InitBlock ==
    /\ proxies = <<>>
    /\ tried_proxies = {}
    /\ proxy_config = None
    /\ triedBefore = {}
    /\ triedAtSelect = {}
    /\ candidates = {}
    /\ picks = <<>>
    /\ page \in Pages
    /\ checked = FALSE
    /\ blocked = FALSE
    /\ faults = {}
    /\ MainIdle("detector")
    /\ scenario = FALSE
    /\ GOOGLE_EMAIL = TRUE
    /\ GOOGLE_PASSWORD = TRUE
    /\ environ = EnvironIdle
    /\ script = ScriptIdle
    /\ ApiIdle

NextBlock == CheckBlocking

SpecBlock == InitBlock /\ [][NextBlock]_vars

\* handle_google_login_process on its own: one call, on any popup and with
\* any setting of the two variables.
InitLogin ==
    /\ proxies = <<>>
    /\ tried_proxies = {}
    /\ proxy_config = None
    /\ triedBefore = {}
    /\ triedAtSelect = {}
    /\ candidates = {}
    /\ picks = <<>>
    /\ BlockIdle
    /\ MainIdle("login_process")
    /\ scenario = FALSE
    /\ EnvInit
    /\ script \in LoginScripts
    /\ ApiIdle

NextLogin == CallLogin

SpecLogin == InitLogin /\ [][NextLogin]_vars

\* One request to the endpoint, with or without a custom proxy configured.
InitApi ==
    /\ proxies = <<>>
    /\ tried_proxies = {}
    /\ proxy_config = None
    /\ triedBefore = {}
    /\ triedAtSelect = {}
    /\ candidates = {}
    /\ picks = <<>>
    /\ BlockIdle
    /\ MainIdle("endpoint")
    /\ scenario = FALSE
    /\ GOOGLE_EMAIL = TRUE
    /\ GOOGLE_PASSWORD = TRUE
    /\ environ = EnvironIdle
    /\ script = ScriptIdle
    /\ api_pc = "start"
    /\ api_browser = "unbound"
    /\ api_live = 0
    /\ api_page_content = <<>>
    /\ api_response = NoResponseYet
    /\ api_fault = "none"
    /\ api_opened = 0
    /\ api_closes = 0
    /\ api_proxy = "unset"
    /\ CUSTOM_PROXY_SERVER \in BOOLEAN
    /\ api_captcha_error_found = FALSE
    /\ PeerIdle

NextApi ==
    \/ ApiLaunch
    \/ ApiGoto
    \/ ApiCaptcha
    \/ ApiScrape
    \/ ApiExit

SpecApi == InitApi /\ [][NextApi]_vars

\* Two requests to the endpoint in flight at once: the event loop runs a
\* step of the one or of the other, in any order.
InitApiPair ==
    /\ proxies = <<>>
    /\ tried_proxies = {}
    /\ proxy_config = None
    /\ triedBefore = {}
    /\ triedAtSelect = {}
    /\ candidates = {}
    /\ picks = <<>>
    /\ BlockIdle
    /\ MainIdle("endpoint")
    /\ scenario = FALSE
    /\ GOOGLE_EMAIL = TRUE
    /\ GOOGLE_PASSWORD = TRUE
    /\ environ = EnvironIdle
    /\ script = ScriptIdle
    /\ api_pc = "start"
    /\ api_browser = "unbound"
    /\ api_live = 0
    /\ api_page_content = <<>>
    /\ api_response = NoResponseYet
    /\ api_fault = "none"
    /\ api_opened = 0
    /\ api_closes = 0
    /\ api_proxy = "unset"
    /\ CUSTOM_PROXY_SERVER \in BOOLEAN
    /\ api_captcha_error_found = FALSE
    /\ peer_pc = "start"
    /\ peer_live = 0
    /\ peer_fault = "none"

NextApiPair ==
    \/ ApiLaunch
    \/ ApiGoto
    \/ ApiCaptcha
    \/ ApiScrape
    \/ ApiExit
    \/ PeerLaunch
    \/ PeerFinish
    \/ PeerExit

SpecApiPair == InitApiPair /\ [][NextApiPair]_vars

\* ProxyRotator() in any environment.
InitLoader ==
    /\ proxies = <<>>
    /\ tried_proxies = {}
    /\ proxy_config = None
    /\ triedBefore = {}
    /\ triedAtSelect = {}
    /\ candidates = {}
    /\ picks = <<>>
    /\ BlockIdle
    /\ MainIdle("loader")
    /\ scenario = FALSE
    /\ GOOGLE_EMAIL = TRUE
    /\ GOOGLE_PASSWORD = TRUE
    /\ environ \in Environs
    /\ script = ScriptIdle
    /\ ApiIdle

NextLoader == LoadProxies

SpecLoader == InitLoader /\ [][NextLoader]_vars

\* ------------------------------------------------------------------ claims

\* The servers the calls numbered from..to returned are pairwise distinct.
DistinctPicks(from, to) ==
    \A i, j \in from..to :
        (i < j /\ j <= Len(picks)) => picks[i] # picks[j]

\* C1: the loop never performs more than max_attempts_before_break (10)
\* attempts; when every attempt was classified Blocked, the finished run has
\* performed exactly 10 attempts and has reported overall failure.
C1_AttemptsBounded ==
    /\ attempts <= max_attempts_before_break
    /\ (pc = "done" /\ allBlocked) =>
          /\ attempts = max_attempts_before_break
          /\ ~success
          /\ report = "failure"

\* A run of ten attempts, all of them blocked, has ended.
C1_Witness ==
    /\ pc = "done"
    /\ allBlocked
    /\ outcome = "Blocked"
    /\ attempts = max_attempts_before_break

\* C2: once an attempt is classified Success no further proxy is selected and
\* no further session is opened, and the run reports success; otherwise the
\* loop goes on until the maximum attempt count is reached: a run that has
\* entered the loop ends only with success or with all its attempts made.
C2_StopsAtSuccessOrMax ==
    /\ [][ outcome = "Success" =>
              /\ attempts' = attempts
              /\ tried_proxies' = tried_proxies
              /\ live' <= live
              /\ pc' \in {"loop", "done"}
              /\ (pc' = "done" => report' = "success") ]_vars
    /\ []( (pc \in {"done", "critical"} /\ attempts >= 1) =>
              (success \/ attempts = max_attempts_before_break) )

\* C3 as stated: the first N calls on a pool of N proxies return N distinct
\* servers.
C3_FirstCycleDistinct == DistinctPicks(1, Len(proxies))

\* C3 as amended: when the N proxies of the pool have N distinct servers, the
\* first N calls return N distinct servers, and so do the N calls of every
\* later cycle; a server can repeat only from one cycle to the next.
C3_DistinctPoolCyclesDistinct ==
    (DistinctServers(proxies) /\ proxies # <<>>) =>
        \A c \in 0..MaxCalls :
            DistinctPicks(c * Len(proxies) + 1, (c + 1) * Len(proxies))

\* A pool of at least two distinct servers whose call N+1 repeats call N.
C3_Witness ==
    /\ DistinctServers(proxies)
    /\ Len(proxies) >= 2
    /\ Len(picks) = Len(proxies) + 1
    /\ picks[Len(proxies) + 1] = picks[Len(proxies)]

\* C4: on a pool that is not empty a call returns a proxy of the pool whose
\* server was not in the tried set at the moment of the choice (after any
\* reset), and the server is in the tried set when the call returns; the call
\* returns None only on an empty pool.
C4_ReturnsUntried ==
    picks # <<>> =>
        IF proxies = <<>>
        THEN proxy_config = None
        ELSE /\ proxy_config \in Servers(proxies)
             /\ proxy_config \notin triedAtSelect
             /\ proxy_config \in tried_proxies
             /\ \E i \in candidates : proxies[i] = proxy_config

\* A call made when every server of a pool of two or more had been tried.
C4_Witness ==
    /\ picks # <<>>
    /\ Len(proxies) >= 2
    /\ triedBefore = Servers(proxies)
    /\ proxy_config \in triedBefore

\* C5: the tried set is a subset of the servers of the pool; a call that
\* finds the tried set as large as the pool clears it before it chooses, and
\* then chooses among the whole pool.
C5_TriedWithinPoolAndReset ==
    /\ tried_proxies \subseteq Servers(proxies)
    /\ (picks # <<>> /\ Cardinality(triedBefore) >= Len(proxies)) =>
          /\ triedAtSelect = {}
          /\ candidates = DOMAIN proxies

\* The call after a full cycle of a pool of two or more.
C5_Witness ==
    /\ Len(proxies) >= 2
    /\ Len(picks) = Len(proxies) + 1
    /\ Cardinality(triedBefore) >= Len(proxies)
    /\ Cardinality(tried_proxies) = 1

\* C6: with no proxy configured main returns before the loop: no attempt is
\* counted, no proxy is selected, no session is opened and nothing is tried
\* again.
C6_EmptyPoolAborts ==
    proxies = <<>> =>
        /\ pc \in {"start", "aborted"}
        /\ attempts = 0
        /\ proxy_config = None
        /\ tried_proxies = {}
        /\ browser = "unbound"
        /\ live = 0
        /\ report = "none"

\* main has returned on an empty pool.
C6_Witness == proxies = <<>> /\ pc = "aborted"

\* C7: a page whose content holds a block indicator is blocked, whatever its
\* URL, its marker and its status.
C7_IndicatorBlocks ==
    (checked /\ ContainsAny(page.content, block_indicators)) => blocked

\* A long page off the target domain, with the marker and without a response,
\* blocked for its indicator alone.
C7_Witness ==
    /\ checked
    /\ blocked
    /\ ContainsAny(page.content, block_indicators)
    /\ StripLen(page.content) >= BlankThreshold
    /\ ~MentionsShopee(page.url)
    /\ found_expected_element(page.sel)
    /\ page.last_response = NoResponse

\* C8: a page of fewer than 100 characters on the target domain is blocked,
\* also without an indicator, with the marker and with a status below 400.
C8_ShortPageBlocks ==
    ( /\ checked
      /\ page.content # ContentRaise
      /\ RawLen(page.content) < BlankThreshold
      /\ OnTargetDomain(page.url) ) => blocked

\* A short page of the target domain with the marker, no indicator and a
\* status below 400.
C8_Witness ==
    /\ checked
    /\ blocked
    /\ page.content # ContentRaise
    /\ RawLen(page.content) < BlankThreshold
    /\ RawLen(page.content) > 0
    /\ OnTargetDomain(page.url)
    /\ ~ContainsAny(page.content, block_indicators)
    /\ found_expected_element(page.sel)
    /\ page.last_response = ErrorStatus - 1

\* C9 as stated: a call in which any read raised returns blocked.
C9_AnyFaultBlocks == (checked /\ faults # {}) => blocked

\* The page with every selector that raises answering None.
WithoutMarkerFaults(p) ==
    [p EXCEPT !.sel = [k \in google_button_selectors |->
                          IF p.sel[k] = Raise THEN "none" ELSE p.sel[k]]]

\* C9 as amended: a fault in reading the content or the status makes the call
\* return blocked; a fault in the lookup of a marker selector is passed over
\* and counts as that selector not matching, so that the call returns what it
\* returns for the page where the selector matches nothing.
C9_ContentOrStatusFaultBlocks ==
    checked =>
        /\ (faults \cap {"content", "status"} # {}) => blocked
        /\ blocked = is_shopee_blocking(WithoutMarkerFaults(page))

\* A call in which a marker lookup raised and then the status.
C9_Witness ==
    /\ checked
    /\ blocked
    /\ faults = {"marker", "status"}

\* C10: the content read again after the wait decides: the attempt is a
\* captcha error exactly when that content holds one of captcha_error_texts.
\* A captcha error closes the session and goes back to the loop, which tries
\* again; otherwise the attempt is a captcha success and goes on to the
\* extraction.
C10_PostWaitContentClassified ==
    /\ []( rechecked =>
              /\ captcha_error_found
                    <=> ContainsAny(page_content, captcha_error_texts)
              /\ captcha_error_found =>
                    /\ pc \in {"loop", "done"}
                    /\ browser = "closed"
                    /\ ~extracted
                    /\ outcome \in {"CaptchaError", "LoginFailed", "Timeout",
                                    "UnexpectedError"} )
    /\ [][ (pc = "captcha_wait" /\ rechecked' /\ ~captcha_error_found') =>
              (pc' = "extract" /\ outcome' = "CaptchaSuccess") ]_vars
    /\ [][ (pc = "extract" /\ pc' = "app_check") => extracted' ]_vars
    /\ [][ ( /\ outcome = "CaptchaError"
             /\ pc = "loop"
             /\ attempts < max_attempts_before_break ) =>
              (pc' = "launch" /\ attempts' = attempts + 1) ]_vars

\* An attempt whose content after the wait holds a captcha error string and
\* that has been closed as a captcha error.
C10_Witness ==
    /\ rechecked
    /\ captcha_error_found
    /\ outcome = "CaptchaError"
    /\ pc = "loop"
    /\ browser = "closed"

\* An attempt has ended: main is between two attempts or behind the loop.
AttemptEnded == pc \in {"loop", "done", "critical"} /\ attempts >= 1

\* C11: when an attempt has ended, whatever its outcome, every session it
\* opened has been closed by it, once.
C11_SessionClosedOnce ==
    AttemptEnded => (closes = opened /\ closes <= 1)

\* C12: at most one session is open at any time, and none is open when the
\* loop is about to select the next proxy or to open the next session.
C12_AtMostOneSession ==
    /\ live <= 1
    /\ pc \in {"loop", "launch"} => live = 0

\* C13: once the loop has been entered no fault ends the run: main does not
\* end at the handler of main.py:789, and it ends only with a success, or
\* with all its attempts made, and with a report.
C13_FaultsNeverEndRun ==
    /\ pc = "critical" => attempts = 0
    /\ pc = "done" =>
          /\ report \in {"success", "failure"}
          /\ success \/ attempts = max_attempts_before_break

\* C14: in the scenario of the pool [P1, P2] whose first proxy is always
\* blocked and whose second never is, with launches and navigations that
\* succeed, the block check is passed in attempt 1 or 2, with P2; once the
\* second attempt is behind the check it has been passed.
C14_SecondProxyPassesWithinTwo ==
    scenario =>
        /\ passedAt <= 2
        /\ (passedAt = attempts /\ pc = "button")
              => proxy_config = ScenarioPool[2]
        /\ ( \/ attempts >= 3
             \/ attempts = 2 /\ pc \notin {"launch", "goto", "check"} )
              => passedAt \in {1, 2}

\* The scenario in which P1 was drawn first and blocked, and P2 has passed the
\* check in the second attempt.
C14_Witness ==
    /\ scenario
    /\ passedAt = 2
    /\ attempts = 2
    /\ pc = "button"
    /\ proxy_config = ScenarioPool[2]
    /\ triedBefore = {ScenarioPool[1]}

\* C15: with GOOGLE_EMAIL or GOOGLE_PASSWORD not set the call of
\* handle_google_login_process returns False, having typed into no field and
\* having sat through the two minutes (unless a pause raised, which its
\* handler caught); the attempt is a failed login, its session is closed, and
\* the loop goes on to the next attempt while attempts are left.
C15_NoCredentialsRetries ==
    /\ []( (login_call.called /\ (~GOOGLE_EMAIL \/ ~GOOGLE_PASSWORD)) =>
              /\ login_call.result = "False"
              /\ login_call.typed = {}
              /\ login_call.waited \/ login_call.caught
              /\ pc \in {"loop", "done"}
              /\ outcome = "LoginFailed"
              /\ browser = "closed"
              /\ closes = 1
              /\ ~success )
    /\ [][ ( /\ login_call.called
             /\ ~GOOGLE_EMAIL \/ ~GOOGLE_PASSWORD
             /\ pc = "loop"
             /\ attempts < max_attempts_before_break ) =>
              (pc' = "launch" /\ attempts' = attempts + 1) ]_vars

\* An attempt with the email set and the password not, ended as a failed
\* login after the two minutes.
C15_Witness ==
    /\ GOOGLE_EMAIL
    /\ ~GOOGLE_PASSWORD
    /\ login_call.called
    /\ login_call.waited
    /\ login_call.typed = {}
    /\ outcome = "LoginFailed"
    /\ pc = "loop"
    /\ browser = "closed"

\* C16 as stated: the call never raises, and returns False whenever one of
\* its steps raised.
C16_EveryFaultFails ==
    login_call.called =>
        /\ login_call.result # "Raise"
        /\ FaultedSteps(GOOGLE_EMAIL, GOOGLE_PASSWORD, script) # {}
              => login_call.result = "False"

\* C16 as amended: the call never raises; a fault of a pause, of the email
\* entry or of the password entry makes it return False; a fault of a click on
\* Next, of the consent handling or of a handler's screenshot is passed over,
\* so that the call returns True exactly when both variables are set and the
\* pause, the email entry and the password entry went through.
C16_EntryFaultsFail ==
    login_call.called =>
        /\ login_call.result # "Raise"
        /\ FaultedSteps(GOOGLE_EMAIL, GOOGLE_PASSWORD, script)
                \cap {"load", "manual", "email", "password"} # {}
              => login_call.result = "False"
        /\ login_call.result = "True" <=>
              /\ GOOGLE_EMAIL
              /\ GOOGLE_PASSWORD
              /\ script.load = "ok"
              /\ script.email = "ok"
              /\ script.password = "ok"

\* A call whose consent handling raised and that returned True.
C16_Witness ==
    /\ login_call.called
    /\ login_call.result = "True"
    /\ "consent" \in FaultedSteps(GOOGLE_EMAIL, GOOGLE_PASSWORD, script)

\* C17: an attempt whose login returned True, that found no captcha and whose
\* content holds no app-only error and has 200 characters or more, is a
\* Success: the run has succeeded, and the wait was skipped.
C17_NoCaptchaLoginSucceeds ==
    ( /\ AttemptEnded
      /\ login_call.called
      /\ login_call.result = "True"
      /\ ~captcha_found
      /\ ~app_error_found(page_content)
      /\ ~IsBlankAfterLogin(page_content) ) =>
        /\ outcome = "Success"
        /\ success
        /\ ~rechecked

\* C18 as stated: a request that has ended without success has been answered
\* with a ScrapingResponse with success = false whose message carries no
\* exception text, never with an HTTP error.
C18_AlwaysStructuredFailure ==
    (api_pc = "done" /\ api_fault # "none") =>
        /\ api_response.kind = "structured"
        /\ ~api_response.success
        /\ ~api_response.raw

\* C18 as amended: a request is answered with success exactly when nothing
\* went wrong; a captcha error and a timeout are answered with a
\* ScrapingResponse with success = false and a fixed message; another fault
\* of the scrape or of the close is answered with a ScrapingResponse whose
\* message carries the exception's text; a fault while the session is opened,
\* or while a handler closes it, is answered with the HTTP error 500 that
\* carries the exception's text.
C18_FailureResponses ==
    api_pc = "done" =>
        /\ api_response.kind # "none"
        /\ api_response.success <=> api_fault = "none"
        /\ api_fault = "none"
              => api_response = Structured(TRUE, "scraped", FALSE)
        /\ api_fault = "captcha_error"
              => api_response = Structured(FALSE, "captcha_failed", FALSE)
        /\ api_fault = "timeout"
              => api_response = Structured(FALSE, "timeout", FALSE)
        /\ api_fault = "error"
              => api_response = Structured(FALSE, "error", TRUE)
        /\ api_fault \in {"launch", "handler_close"}
              => api_response = HttpError

\* A request whose launch raised, answered with the HTTP error.
C18_Witness ==
    /\ api_pc = "done"
    /\ api_fault = "launch"
    /\ api_browser = "unbound"
    /\ api_response = HttpError

\* The outcomes an attempt is marked with: its classification, the file
\* captcha_success_N.txt (main.py:519) and the file captcha_error_N.txt
\* (main.py:554).
Recorded ==
    (IF outcome = "none" THEN {} ELSE {outcome})
        \cup (IF captcha_found THEN {"CaptchaSuccess"} ELSE {})
        \cup (IF captcha_error_found THEN {"CaptchaError"} ELSE {})

\* C19: an attempt that has ended is marked with exactly one outcome; the
\* captcha success on the way to a Success is not counted apart from it.
C19_ExactlyOneOutcome ==
    AttemptEnded =>
        Cardinality(Recorded \ (IF outcome = "Success"
                                 THEN {"CaptchaSuccess"} ELSE {})) = 1

\* C20: a call in which no read raised returns blocked exactly when the page
\* has fewer than 100 characters on the target domain, or holds a block
\* indicator, or lacks the marker on the target domain, or has a status of
\* 400 or more.
C20_BlockedExactlyByRules ==
    (checked /\ faults = {} /\ page.content # ContentRaise) =>
        ( blocked <=>
            \/ RawLen(page.content) < BlankThreshold /\ OnTargetDomain(page.url)
            \/ ContainsAny(page.content, block_indicators)
            \/ ~found_expected_element(page.sel) /\ OnTargetDomain(page.url)
            \/ page.last_response # NoResponse
                  /\ page.last_response >= ErrorStatus )

\* C21: the product record is extracted and written only in the attempt that
\* succeeds: an attempt that has ended after it ran the extraction or wrote
\* the record has made the run a success, and an attempt classified
\* AppOnlyError or BlankPage has neither extracted nor written a record.
C21_ExtractOnlyOnSuccess ==
    AttemptEnded =>
        /\ (extracted \/ persisted) => success
        /\ outcome \in {"AppOnlyError", "BlankPage"}
              => (~extracted /\ ~persisted)

\* C22: the check after the login is reached only with a login that returned
\* True. There a content that holds an app-only error string makes the
\* attempt an AppOnlyError, and otherwise a content of fewer than 200
\* characters makes it a BlankPage, whatever the URL; a longer content goes on
\* to the end of the attempt. Both classifications close the session and the
\* loop goes on. A content of 100 to 199 characters is not blank for the block
\* check and is a BlankPage after the login.
C22_AppOnlyThenBlank ==
    /\ [][ pc = "app_check" =>
             /\ login_call.result = "True"
             /\ IF ContainsAny(page_content, app_only_error_texts)
                THEN outcome' = "AppOnlyError"
                ELSE IF RawLen(page_content) < 200
                THEN outcome' = "BlankPage"
                ELSE pc' = "final" /\ outcome' = outcome
             /\ ( /\ ~ContainsAny(page_content, app_only_error_texts)
                  /\ RawLen(page_content) \in BlankThreshold..199 )
                   => ~IsBlank(page_content, UrlProduct)
             /\ outcome' \in {"AppOnlyError", "BlankPage"} =>
                   /\ pc' = "loop"
                   /\ browser' = "closed"
                   /\ live' = live - 1
                   /\ closes' = 1
                   /\ ~login_success' ]_vars
    /\ [][ ( /\ outcome \in {"AppOnlyError", "BlankPage"}
             /\ pc = "loop"
             /\ attempts < max_attempts_before_break ) =>
              (pc' = "launch" /\ attempts' = attempts + 1) ]_vars

\* An attempt whose content of 150 characters is not blank for the block
\* check and was closed as a BlankPage after the login.
C22_Witness ==
    /\ outcome = "BlankPage"
    /\ endedAt = "app_check"
    /\ pc = "loop"
    /\ browser = "closed"
    /\ login_call.result = "True"
    /\ RawLen(page_content) = 150
    /\ ~IsBlank(page_content, UrlProduct)

\* C23: the captcha wait is entered only in an attempt that found a captcha
\* marker, and once; it is one step that neither looks for the marker again
\* nor comes back to itself; the content is read once when the wait is over,
\* and neither the content nor the marker is read again in the attempt.
C23_SingleBlockingWait ==
    /\ []( pc = "captcha_wait" => (captcha_found /\ ~rechecked) )
    /\ []( rechecked => captcha_found )
    /\ [][ pc = "captcha_wait" =>
             /\ pc' # "captcha_wait"
             /\ captcha_found' = captcha_found
             /\ rechecked' \/ page_content' = page_content ]_vars
    /\ [][ rechecked =>
             \/ pc = "loop"
             \/ /\ rechecked'
                /\ pc' # "captcha_wait"
                /\ page_content' = page_content
                /\ captcha_found' = captcha_found ]_vars

\* An attempt that found the marker, waited, read the content once and found
\* no captcha error in it.
C23_Witness ==
    /\ pc = "extract"
    /\ captcha_found
    /\ rechecked
    /\ ~captcha_error_found
    /\ outcome = "CaptchaSuccess"

\* C24: the stages of an attempt come in the order block check, login,
\* captcha wait. An attempt classified Blocked ended at the block check and
\* never called the login; an attempt whose login failed (no button, no
\* popup, or a call that did not return True) ran neither the captcha wait
\* nor the extraction; in both cases the session is closed and the loop goes
\* on to the next attempt.
C24_StagesInOrder ==
    /\ []( outcome = "Blocked" =>
              /\ endedAt = "check"
              /\ ~login_call.called
              /\ ~rechecked /\ ~extracted /\ ~persisted
              /\ pc \in {"loop", "done"}
              /\ browser = "closed"
              /\ closes = 1 )
    /\ []( ( \/ endedAt \in {"button", "popup", "login"}
             \/ login_call.called /\ login_call.result # "True" ) =>
              /\ login_call.called => endedAt = "login"
              /\ ~captcha_found /\ ~rechecked /\ ~extracted /\ ~persisted
              /\ pc \in {"loop", "done"}
              /\ browser = "closed"
              /\ closes = 1
              /\ ~success )
    /\ [][ pc' # pc =>
             /\ pc' = "button" => pc = "check"
             /\ pc' = "popup" => pc = "button"
             /\ pc' = "login" => (pc = "popup" /\ ~login_call.called)
             /\ pc' = "postlogin" =>
                   (pc = "login" /\ login_call'.result = "True")
             /\ pc' = "captcha_wait" => pc = "postlogin"
             /\ pc' = "extract" => pc = "captcha_wait" ]_vars
    /\ [][ ( /\ endedAt \in {"check", "button", "popup", "login"}
             /\ pc = "loop"
             /\ attempts < max_attempts_before_break ) =>
              (pc' = "launch" /\ attempts' = attempts + 1) ]_vars

\* An attempt that passed the block check, typed the email, found no password
\* field and was closed as a failed login.
C24_Witness ==
    /\ GOOGLE_EMAIL /\ GOOGLE_PASSWORD
    /\ login_call.called
    /\ login_call.result = "False"
    /\ login_call.typed = {"email"}
    /\ endedAt = "login"
    /\ outcome = "LoginFailed"
    /\ pc = "loop"
    /\ browser = "closed"
    /\ ~captcha_found /\ ~rechecked /\ ~extracted

\* The step that takes the loop from an attempt that failed to the next one.
NextAttempt == pc = "loop" /\ pc' = "launch" /\ attempts >= 1

\* C25 as stated: on a pool of two or more servers the proxy of the next
\* attempt differs from the proxy of the attempt that failed.
C25_NextProxyDiffers ==
    [][ (NextAttempt /\ Cardinality(Servers(proxies)) >= 2) =>
           proxy_config' # proxy_config ]_vars

\* C25 as amended: every attempt that failed is followed by a new draw from
\* the rotator. While a server of the pool is untried in the cycle, the next
\* proxy is an untried one, and so differs from the proxy of the attempt that
\* failed; when the failed attempt used the last untried server, the cycle
\* starts again and the next proxy is drawn among the whole pool, the proxy
\* that just failed included.
C25_NextProxyUntriedInCycle ==
    /\ []( attempts >= 1 => proxy_config \in tried_proxies )
    /\ [][ NextAttempt =>
             IF Servers(proxies) \ tried_proxies # {}
             THEN /\ proxy_config' \notin tried_proxies
                  /\ proxy_config' # proxy_config
                  /\ tried_proxies' = tried_proxies \cup {proxy_config'}
             ELSE /\ candidates' = DOMAIN proxies
                  /\ tried_proxies' = {proxy_config'} ]_vars

\* The second attempt on a pool of two servers, after a first one that was
\* blocked: it has the other proxy.
C25_Witness ==
    /\ pc = "launch"
    /\ attempts = 2
    /\ allBlocked
    /\ Len(proxies) = 2
    /\ DistinctServers(proxies)
    /\ Cardinality(triedBefore) = 1
    /\ proxy_config \notin triedBefore

\* C26: a call that returned True has typed the whole email, then the whole
\* password, and has entered the consent step after that, in this order and
\* with no step left out.
C26_SuccessAfterAllSteps ==
    (login_call.called /\ login_call.result = "True") =>
        /\ StepsRun(GOOGLE_EMAIL, GOOGLE_PASSWORD, script)
              = <<"email", "password", "consent">>
        /\ login_call.typed = {"email", "password"}
        /\ ~login_call.waited
        /\ ~login_call.caught

\* A call that went through every step and clicked a consent button.
C26_Witness ==
    /\ login_call.called
    /\ login_call.result = "True"
    /\ script.consent = "clicked"
    /\ script.next = "ok"
    /\ script.passwordNext = "ok"
    /\ StepsRun(GOOGLE_EMAIL, GOOGLE_PASSWORD, script)
          = <<"email", "password", "consent">>

\* The call got as far as the search for the password field.
ReachedPassword ==
    /\ GOOGLE_EMAIL /\ GOOGLE_PASSWORD
    /\ script.load = "ok"
    /\ script.email = "ok"

\* C27: a call that typed the email and then found no password field returns
\* False, without typing a password and without entering the consent step.
C27_NoPasswordFieldFails ==
    (login_call.called /\ ReachedPassword /\ script.password = "notfound") =>
        /\ login_call.result = "False"
        /\ login_call.typed = {"email"}
        /\ StepsRun(GOOGLE_EMAIL, GOOGLE_PASSWORD, script) = <<"email">>
        /\ ~login_call.caught

\* A call that found no password field although a consent button was there.
C27_Witness ==
    /\ login_call.called
    /\ ReachedPassword
    /\ script.password = "notfound"
    /\ script.consent = "clicked"
    /\ login_call.result = "False"

\* C28: a call that has typed the password returns True, whether a consent
\* button was clicked or none was there.
C28_ConsentOptional ==
    ( /\ login_call.called
      /\ ReachedPassword
      /\ script.password = "ok"
      /\ script.consent \in {"clicked", "none"} ) =>
        /\ login_call.result = "True"
        /\ "password" \in login_call.typed

\* A call that typed the password, found no consent button and returned True.
C28_Witness ==
    /\ login_call.called
    /\ ReachedPassword
    /\ script.password = "ok"
    /\ script.consent = "none"
    /\ login_call.result = "True"

\* C29: when the popup does not come within the wait, the attempt ends there:
\* handle_google_login_process is not called and nothing is typed, the
\* attempt is a failed login (or, when the handler's screenshot raised as
\* well, a timeout or an error), its session is closed, and the loop goes on
\* to the next attempt.
C29_NoPopupFailsAttempt ==
    /\ []( endedAt = "popup" =>
              /\ ~login_call.called
              /\ login_call.typed = {}
              /\ outcome \in {"LoginFailed", "Timeout", "UnexpectedError"}
              /\ ~login_success /\ ~captcha_found /\ ~extracted
              /\ pc \in {"loop", "done"}
              /\ browser = "closed"
              /\ closes = 1
              /\ ~success )
    /\ [][ (pc = "popup" /\ pc' # "login") =>
              (pc' = "loop" /\ endedAt' = "popup" /\ live' = live - 1) ]_vars
    /\ [][ ( /\ endedAt = "popup"
             /\ pc = "loop"
             /\ attempts < max_attempts_before_break ) =>
              (pc' = "launch" /\ attempts' = attempts + 1) ]_vars

\* An attempt that found the button, got no popup and was closed as a failed
\* login.
C29_Witness ==
    /\ endedAt = "popup"
    /\ outcome = "LoginFailed"
    /\ ~login_call.called
    /\ pc = "loop"
    /\ browser = "closed"
    /\ closes = 1

\* C30 as stated: a request makes one attempt with one session, bound to the
\* custom proxy when one is configured and to none otherwise, and when the
\* request has ended its own browser.close() has closed every session it
\* opened, once, whatever the path.
C30_ClosedOncePerRequest ==
    /\ api_opened <= 1
    /\ api_opened = 1 =>
          api_proxy = (IF CUSTOM_PROXY_SERVER THEN "custom" ELSE "none")
    /\ api_pc = "done" => api_closes = api_opened

\* C30 as amended: a request makes one attempt: it opens at most one session,
\* bound to the custom proxy when one is configured and to none otherwise,
\* never a second one and never with another proxy, and it takes no step once
\* it has its answer. No session is open when the client receives the answer.
\* On the success, captcha-error, timeout and scraping-fault paths the
\* session was closed by browser.close(), once; when the launch raised, or
\* when browser.close() raised in a handler, the request's code closed
\* nothing, and a session left open was ended by the exit from the block of
\* api.py:189.
C30_SessionEndedPerRequest ==
    /\ []( /\ api_opened <= 1
           /\ api_live <= 1
           /\ api_closes <= api_opened
           /\ api_opened = 1 =>
                 api_proxy = (IF CUSTOM_PROXY_SERVER THEN "custom"
                              ELSE "none") )
    /\ []( api_pc = "done" =>
              /\ api_live = 0
              /\ api_fault \in {"none", "captcha_error", "timeout", "error"}
                    => (api_opened = 1 /\ api_closes = 1)
              /\ api_fault \in {"launch", "handler_close"}
                    => api_closes = 0
              /\ api_fault = "handler_close" => api_opened = 1 )
    /\ [][ /\ api_pc # "done"
           /\ api_pc # "start" =>
                 (api_opened' = api_opened /\ api_proxy' = api_proxy) ]_vars

\* A request with a custom proxy whose navigation timed out: its session was
\* closed by the handler before the answer.
C30_Witness ==
    /\ api_pc = "done"
    /\ api_fault = "timeout"
    /\ CUSTOM_PROXY_SERVER
    /\ api_proxy = "custom"
    /\ api_opened = 1
    /\ api_closes = 1
    /\ api_live = 0
    /\ api_page_content = <<>>

\* ------------------------------------------------------------ termination

\* The run of main() with every step of main eventually taken: main is one
\* coroutine, and every wait of a step completes or times out, so that the
\* step that is next is taken in the end.
SpecFair == Init /\ [][Next]_vars /\ WF_vars(Next)

\* main has ended: by the return of main.py:389, behind the report of
\* main.py:784-787, or in the handler of main.py:789.
RunEnded == pc \in {"aborted", "done", "critical"}

\* Every run of main ends, one way or another.
RunEnds == <>RunEnded

\* C31: with every step wait bounded, a run that has entered the loop
\* reaches in the end the final report of a success or of a failure, with no
\* session left open.
C31_RunReachesReport ==
    (pc = "loop" /\ attempts = 0)
        ~> (pc = "done" /\ report \in {"success", "failure"} /\ live = 0)

\* The place of a name in the order custom, Geonode, numbered by index.
LoadRank(e) ==
    IF e = CustomProxy THEN 0 ELSE IF e = GeonodeProxy THEN 1 ELSE 1 + e.index

\* C32: the pool is loaded in the order custom proxy, Geonode proxy, numbered
\* proxies by increasing index; a name with no server is not in it; and each
\* of the numbered proxies 1 to 10 that is configured is in it (as are the
\* custom and the Geonode proxy).
C32_PoolLoadedInOrder ==
    pc = "loaded" =>
        /\ \A i, j \in DOMAIN proxies :
              i < j => LoadRank(proxies[i]) < LoadRank(proxies[j])
        /\ \A i \in DOMAIN proxies : proxies[i] \in environ
        /\ \A e \in environ : \E i \in DOMAIN proxies : proxies[i] = e

\* The same for the numbered proxies 1 to 9, which is what the loader does.
PoolLoadedUpToNine ==
    pc = "loaded" =>
        /\ \A i, j \in DOMAIN proxies :
              i < j => LoadRank(proxies[i]) < LoadRank(proxies[j])
        /\ \A i \in DOMAIN proxies : proxies[i] \in environ
        /\ \A e \in environ \ {NumberedProxy(NumberedStop)} :
              \E i \in DOMAIN proxies : proxies[i] = e

\* C33: main has its overall success only if, in the last attempt, the block
\* check was passed (the attempt went on to its end at main.py:743-766 and
\* was not classified as blocked), the login returned True, a challenge
\* marker was detected, and the content read after the CAPTCHA wait held no
\* captcha error string, no app-only error string, and at least 200
\* characters.
C33_SuccessOnlyAfterAllChecks ==
    success =>
        /\ endedAt = "final"
        /\ ~allBlocked
        /\ login_call.called
        /\ login_call.result = "True"
        /\ captcha_found
        /\ rechecked
        /\ ~ContainsAny(page_content, captcha_error_texts)
        /\ ~ContainsAny(page_content, app_only_error_texts)
        /\ StripLen(page_content) >= 200
        /\ RawLen(page_content) >= 200

\* A run that has reported its success after a failed attempt and one that
\* passed every check.
C33_Witness ==
    /\ success
    /\ pc = "done"
    /\ report = "success"
    /\ attempts = 2
    /\ outcome = "Success"

C35_SameCaptchaClassification ==
    /\ api_captcha_error_found
          <=> ScanCaptchaErrors(<<>>, api_page_content)
    /\ api_response = CaptchaFailed => api_captcha_error_found
    /\ (api_captcha_error_found /\ api_pc \in {"exit", "done"})
          => \/ api_response = CaptchaFailed
             \/ api_fault \in {"timeout", "error", "handler_close"}
    /\ (api_pc = "scrape" /\ api_page_content # <<>>)
          => ~ScanCaptchaErrors(<<>>, api_page_content)

\* The request has read, after the wait, a content that ends with the last
\* of the error strings, and has answered with the captcha failure.
C35_Witness ==
    /\ api_pc = "done"
    /\ api_captcha_error_found
    /\ api_response = CaptchaFailed
    /\ Len(api_page_content) = 2
    /\ api_page_content[2] = <<"logout">>
    /\ ~ContainsAny(<<api_page_content[1]>>, captcha_error_texts)

====
